---- MODULE Spec2Model ----
(***************************************************************************)
(* S3FileSystem (be/src/io/fs/s3_file_system.cpp): the path/key            *)
(* translator, the client lifecycle, the execution dispatch and the        *)
(* object operations, against an object store that lists in key order and  *)
(* paginates with continuation tokens.                                     *)
(*                                                                         *)
(* Strings are sequences of one-character strings.                         *)
(***************************************************************************)
EXTENDS Integers, Sequences, FiniteSets, TLC

\* ---------------------------------------------------------------- bounds
\* Largest page size the backend is configured with (pages hold 1..MaxPage keys).
MaxPage == 2
\* Longest input sequence given to batch_delete.
MaxPaths == 5
\* How many connect() calls a behaviour makes.
MaxConnects == 2
\* How many backend calls / listed files of one operation are recorded; later
\* ones are executed but not recorded.
LogCap == 8
\* The batch cap of batch_delete, scaled down from the source's 1000.
max_delete_batch == 2

\* ---------------------------------------------------------------- strings
StartsWith(s, p) == Len(p) <= Len(s) /\ SubSeq(s, 1, Len(p)) = p

\* s with its first n characters removed (std::string::substr(n), data() + n)
Drop(s, n) == SubSeq(s, n + 1, Len(s))

Slash == <<"/">>

\* byte order of the characters used
CharRank(c) == CASE c = "/" -> 1
                 [] c = "a" -> 2
                 [] c = "b" -> 3
                 [] c = "c" -> 4
                 [] c = "d" -> 5
                 [] c = "e" -> 6
                 [] c = "k" -> 7
                 [] c = "p" -> 8
                 [] OTHER   -> 9

RECURSIVE KeyLess(_, _)
\* lexicographic (UTF-8 binary) order in which the object store lists keys
KeyLess(x, y) ==
    IF y = <<>> THEN FALSE
    ELSE IF x = <<>> THEN TRUE
    ELSE IF Head(x) = Head(y) THEN KeyLess(Tail(x), Tail(y))
    ELSE CharRank(Head(x)) < CharRank(Head(y))

RECURSIVE SortKeys(_)
SortKeys(S) ==
    IF S = {} THEN <<>>
    ELSE LET m == CHOOSE x \in S : \A y \in S \ {x} : KeyLess(x, y)
         IN  <<m>> \o SortKeys(S \ {m})

SeqSet(s) == {s[i] : i \in 1..Len(s)}

Min(a, b) == IF a < b THEN a ELSE b

\* ---------------------------------------------------------------- profile
endpoint == <<"e">>
bucket == <<"k">>

\* the key prefixes a connection profile is created with
RawPrefixes == { <<"p">>, <<"/", "p", "/">>, <<"/", "/", "p">> }

\* S3FileSystem::S3FileSystem, the root path handed to RemoteFileSystem:
\* fmt::format("{}/{}/{}", endpoint, bucket, prefix) with the prefix as given
RootPathOf(raw) == endpoint \o Slash \o bucket \o Slash \o raw

\* S3FileSystem::S3FileSystem, the two ifs on _s3_conf.prefix
StoredPrefixOf(raw) ==
    LET p1 == IF Len(raw) > 0 /\ raw[1] = "/" THEN Drop(raw, 1) ELSE raw
    IN  IF p1 # <<>> /\ p1[Len(p1)] = "/" THEN SubSeq(p1, 1, Len(p1) - 1) ELSE p1

VARIABLES
    s3_prefix,   \* _s3_conf.prefix as stored by the constructor
    root_path,   \* _root_path
    client,      \* _client: 0 is the null pointer, n > 0 the client of the n-th connect
    connects,    \* connect() calls made so far
    store,       \* the bucket: the set of object keys
    page_size,   \* objects per page of the backend's listing
    pc,          \* "idle", "list", "delete_directory", "batch_delete", "done"
    op,          \* the operation in flight or just returned
    bthread,     \* TRUE when the caller is a bthread (bthread_self() != 0)
    ctx,         \* where the operation's body runs: "caller" or "worker"
    path,        \* the operation's path argument
    paths,       \* batch_delete's / batch_upload's path sequence
    lclient,     \* the operation's local `client`
    key,         \* the operation's resolved key (get_key(path))
    prefix,      \* list / delete_directory: the request's prefix
    token,       \* list / delete_directory: the request's continuation token
    path_iter,   \* batch_delete: paths consumed so far
    files,       \* list: *files
    status,      \* the returned Status ("none" while running, "crash" for a dead process)
    handle,      \* the reader / writer produced
    out,         \* what was written to the output argument (*res, *file_size), if anything
    err,         \* what the returned error carries
    nlocal,      \* batch_upload: local_paths.size()
    calls,       \* backend calls of the operation, in order
    pages,       \* parity of the number of pages the operation has requested
    store0,      \* the store when the operation was called
    client0      \* _client when the operation was called

vars == << s3_prefix, root_path, client, connects, store, page_size, pc, op, bthread,
           ctx, path, paths, lclient, key, prefix, token, path_iter, files, status,
           handle, out, err, nlocal, calls, pages, store0, client0 >>

conf == << s3_prefix, root_path, page_size >>

\* ---------------------------------------------------------------- get_key
PlainGetKey(p) ==
    IF StartsWith(p, root_path)
    THEN s3_prefix \o Drop(p, Len(root_path))
    ELSE s3_prefix \o p

\* S3FileSystem::get_key
get_key(p) ==
    IF StartsWith(p, root_path)
    THEN s3_prefix \o Slash \o Drop(p, Len(root_path))
    ELSE s3_prefix \o Slash \o p

NoSlashDirPrefix(k) == k

\* list / delete_directory_impl: ensure the prefix ends with '/'
DirPrefix(k) == IF k # <<>> /\ k[Len(k)] # "/" THEN k \o Slash ELSE k


\* ---------------------------------------------------------------- backend
\* ListObjectsV2 of the object store: the keys under the request's prefix that
\* follow the continuation token, in key order, at most n per page; truncated
\* while keys remain, and then the next token resumes after the page's last key
ListObjectsV2(st, pfx, tok, n) ==
    LET rest == SortKeys({k \in st : StartsWith(k, pfx) /\ (tok = <<>> \/ KeyLess(tok, k))})
        cnt  == Min(n, Len(rest))
    IN  [ contents  |-> SubSeq(rest, 1, cnt),
          truncated |-> Len(rest) > cnt,
          next      |-> IF Len(rest) > cnt THEN rest[cnt] ELSE <<>> ]

\* DeleteObjects of the object store (quiet mode): "ok" deletes every key of the
\* request, "fail" is a request-level failure, "errors" deletes the keys that are
\* not reported in the result's Errors
DeleteObjects(st, keys, outcome, errs) ==
    CASE outcome = "ok"     -> st \ SeqSet(keys)
      [] outcome = "fail"   -> st
      [] outcome = "errors" -> st \ (SeqSet(keys) \ errs)

\* HeadObject of the object store
HeadObject(st, k, fault) ==
    IF fault THEN "error" ELSE IF k \in st THEN "ok" ELSE "not_found"

\* content length the store reports for an object
ContentLength(k) == IF k[Len(k)] = "a" THEN 0 ELSE Len(k)

DeleteOutcomes == {"ok", "fail", "errors"}
TransferStates == {"COMPLETED", "FAILED", "CANCELED"}

\* ---------------------------------------------------------------- inputs
RelPaths == { <<"d">>, <<"d", "/", "a">> }

\* relative paths and paths that start with the root path
PathPool == RelPaths \cup { root_path, root_path \o <<"/", "d">>, root_path \o <<"d">> }

BatchPool == { <<"d", "/", "a">>, <<"d", "/", "b">> }

SeqsUpTo(S, n) == UNION { [1..m -> S] : m \in 0..n }

\* batch_delete's inputs: the sequences of length 0..MaxPaths that alternate
\* between two paths, starting with either
BatchSeqs ==
    { [i \in 1..n |-> IF i % 2 = 1 THEN q[1] ELSE q[2]] :
        n \in 0..MaxPaths,
        q \in { << <<"d", "/", "a">>, <<"d", "/", "b">> >>,
                << <<"d", "/", "b">>, <<"d", "/", "a">> >> } }

\* keys the bucket may hold, given the stored prefix
KeyPool(pre) == { pre \o <<"/", "d", "/", "a">>, pre \o <<"/", "d", "/", "b">>,
                  pre \o <<"/", "d", "/", "c">>, pre \o <<"/", "d", "z">> }

\* ---------------------------------------------------------------- records
NoHandle == [type |-> "none", key |-> <<>>, size |-> 0, client |-> 0]

Call(kind, cl, tok, keys, next, outcome) ==
    [kind |-> kind, ctx |-> ctx, client |-> cl, token |-> tok, keys |-> keys,
     next |-> next, outcome |-> outcome]

\* no error: what an OK, InternalError or InvalidArgument status carries of the
\* request's context
NoErr == [endpoint |-> FALSE, bucket |-> FALSE, key |-> <<>>, message |-> "none"]

\* Status::IOError("...(endpoint={}, bucket={}, key={}): {}", _s3_conf.endpoint,
\* _s3_conf.bucket, k, m); the message m is "request" for the failed request's
\* GetError().GetMessage(), "object" for the message of the first entry of the
\* result's Errors, "transfer" for the handle's GetLastError().GetMessage() and
\* "empty" for GetError().GetMessage() of an outcome that succeeded
IOErr(k, m) == [endpoint |-> TRUE, bucket |-> TRUE, key |-> k, message |-> m]

\* Status::IOError(m): the message alone
BareErr(m) == [endpoint |-> FALSE, bucket |-> FALSE, key |-> <<>>, message |-> m]

\* the text read through objects.front() of a moved-from vector
GarbageKey == <<"?">>

LastError(keys, errs) ==
    keys[CHOOSE i \in 1..Len(keys) :
            keys[i] \in errs /\ \A j \in 1..Len(keys) : keys[j] \in errs => j <= i]

\* GetResult().GetErrors().front(): the store reports the failed keys in the
\* request's order
FirstError(keys, errs) ==
    keys[CHOOSE i \in 1..Len(keys) :
            keys[i] \in errs /\ \A j \in 1..Len(keys) : keys[j] \in errs => i <= j]

StoredClient == client

\* the client a loop's requests go through: the local `client` taken by
\* get_client() when the operation started
RequestClient == lclient

\* the log keeps the first LogCap entries
Log(c) == IF Len(calls) < LogCap THEN Append(calls, c) ELSE calls

PushAll(fs, s) == SubSeq(fs \o s, 1, Min(LogCap, Len(fs) + Len(s)))

\* ---------------------------------------------------------------- dispatch
\* the public entry points: bthread_self() == 0 runs the impl in place, otherwise
\* AsyncIO::run_task runs it on the worker pool while the caller waits
Dispatch(isBthread) == IF isBthread THEN "worker" ELSE "caller"

\* list and batch_delete have no entry point of this shape: the body runs where
\* it is called
NoDispatch(isBthread) == "caller"

Init ==
    /\ \E raw \in RawPrefixes :
          /\ s3_prefix = StoredPrefixOf(raw)
          /\ root_path = RootPathOf(raw)
          /\ store \in SUBSET KeyPool(StoredPrefixOf(raw))
    /\ page_size \in 1..MaxPage
    /\ client = 0
    /\ connects = 0
    /\ pc = "idle"
    /\ op = "none"
    /\ bthread = FALSE
    /\ ctx = "caller"
    /\ path = <<>>
    /\ paths = <<>>
    /\ lclient = 0
    /\ key = <<>>
    /\ prefix = <<>>
    /\ token = <<>>
    /\ path_iter = 0
    /\ files = <<>>
    /\ status = "none"
    /\ handle = NoHandle
    /\ out = {}
    /\ err = NoErr
    /\ nlocal = 0
    /\ calls = <<>>
    /\ pages = 0
    /\ store0 = {}
    /\ client0 = 0

\* an operation is called: its arguments, where it runs, what it finds
\* the accessor every operation starts with: the stored handle, read whole
get_client == client

Enter(o, p, ps, b, where) ==
    /\ pc = "idle"
    /\ op' = o
    /\ path' = p
    /\ paths' = ps
    /\ bthread' = b
    /\ ctx' = where
    /\ lclient' = get_client
    /\ client0' = client
    /\ store0' = store
    /\ UNCHANGED <<conf, client, connects, pages>>

\* ---------------------------------------------------------------- connect
\* S3FileSystem::connect_impl, under _client_mu, called by another thread at any
\* point of an operation (a connect racing with an operation's return is taken
\* after the return)
connect(ok) ==
    /\ connects < MaxConnects
    /\ pc # "done"
    /\ connects' = connects + 1
    /\ client' = IF ok THEN connects + 1 ELSE 0
    /\ UNCHANGED <<conf, store, pc, op, bthread, ctx, path, paths, lclient, key, prefix,
                   token, path_iter, files, status, handle, out, err, nlocal, calls, pages,
                   store0, client0>>

\* ---------------------------------------------------------------- list
\* S3FileSystem::list: the request's continuation token after a page
ListNextRequestToken(tok, res) == tok

\* S3FileSystem::list, up to the loop
list(p, b) ==
    /\ Enter("list", p, <<>>, b, NoDispatch(b))
    /\ token' = <<>>
    /\ IF client = 0
       THEN /\ pc' = "done" /\ status' = "InternalError"
            /\ UNCHANGED <<key, prefix>>
       ELSE /\ pc' = "list" /\ status' = "none"
            /\ key' = get_key(p)
            /\ prefix' = DirPrefix(get_key(p))
    /\ UNCHANGED <<store, path_iter, files, handle, out, err, nlocal, calls>>

StripPrefix(keys, pfx) == [i \in 1..Len(keys) |-> Drop(keys[i], Len(pfx))]

\* S3FileSystem::list, one iteration of the do-while
list_page(ok) ==
    /\ pc = "list"
    /\ pages' = 1 - pages
    /\ LET res == ListObjectsV2(store, prefix, token, page_size)
       IN  IF ~ok
           THEN /\ calls' = Log(Call("list", RequestClient, token, <<>>, <<>>, "fail"))
                /\ status' = "IOError"
                /\ err' = IOErr(prefix, "request")
                /\ pc' = "done"
                /\ UNCHANGED <<files, token>>
           ELSE /\ calls' = Log(Call("list", RequestClient, token, res.contents, res.next, "ok"))
                /\ UNCHANGED err
                /\ files' = PushAll(files, StripPrefix(res.contents, prefix))
                /\ token' = ListNextRequestToken(token, res)
                /\ IF res.truncated
                   THEN pc' = "list" /\ status' = "none"
                   ELSE pc' = "done" /\ status' = "OK"
    /\ UNCHANGED <<conf, client, connects, store, op, bthread, ctx, path, paths, lclient,
                   key, prefix, path_iter, handle, out, nlocal, store0, client0>>

\* ---------------------------------------------------------------- delete_directory
\* S3FileSystem::delete_directory / delete_directory_impl, up to the loop
delete_directory(p, b) ==
    /\ Enter("delete_directory", p, <<>>, b, Dispatch(b))
    /\ token' = <<>>
    /\ IF client = 0
       THEN /\ pc' = "done" /\ status' = "InternalError"
            /\ UNCHANGED <<key, prefix>>
       ELSE /\ pc' = "delete_directory" /\ status' = "none"
            /\ key' = get_key(p)
            /\ prefix' = DirPrefix(get_key(p))
    /\ UNCHANGED <<store, path_iter, files, handle, out, err, nlocal, calls>>

ContinueWhileObjects(res) == res.contents # <<>>

\* delete_directory_impl: is_trucated, the loop's condition
DeleteDirectoryContinue(res) == res.truncated

\* delete_directory_impl: request.SetContinuationToken(...)
DeleteDirectoryNextToken(tok, res) == res.next

\* delete_directory_impl, one iteration of the do-while
delete_directory_page(listOk, outcome, errs) ==
    /\ pc = "delete_directory"
    /\ pages' = 1 - pages
    /\ LET res  == ListObjectsV2(store, prefix, token, page_size)
           lrec == Call("list", RequestClient, token, res.contents, res.next, "ok")
           drec == Call("delete", RequestClient, <<>>, res.contents, <<>>, outcome)
       IN  IF ~listOk
           THEN /\ outcome = "ok" /\ errs = {}
                /\ calls' = Log(Call("list", RequestClient, token, <<>>, <<>>, "fail"))
                /\ status' = "IOError"
                /\ err' = IOErr(prefix, "request")
                /\ pc' = "done"
                /\ UNCHANGED <<store, token>>
           ELSE IF res.contents = <<>>
           THEN /\ outcome = "ok" /\ errs = {}
                /\ calls' = Log(lrec)
                /\ token' = DeleteDirectoryNextToken(token, res)
                /\ IF DeleteDirectoryContinue(res)
                   THEN pc' = "delete_directory" /\ status' = "none"
                   ELSE pc' = "done" /\ status' = "OK"
                /\ UNCHANGED <<store, err>>
           ELSE /\ IF outcome = "errors"
                   THEN errs # {} /\ errs \subseteq SeqSet(res.contents)
                   ELSE errs = {}
                /\ store' = DeleteObjects(store, res.contents, outcome, errs)
                /\ calls' = IF Len(calls) + 2 <= LogCap
                            THEN calls \o <<lrec, drec>>
                            ELSE Log(lrec)
                /\ IF outcome # "ok"
                   THEN /\ status' = "IOError"
                        /\ err' = IF outcome = "fail"
                                  THEN IOErr(prefix, "request")
                                  ELSE IOErr(FirstError(res.contents, errs), "object")
                        /\ pc' = "done"
                        /\ UNCHANGED token
                   ELSE /\ UNCHANGED err
                        /\ token' = DeleteDirectoryNextToken(token, res)
                        /\ IF DeleteDirectoryContinue(res)
                           THEN pc' = "delete_directory" /\ status' = "none"
                           ELSE pc' = "done" /\ status' = "OK"
    /\ UNCHANGED <<conf, client, connects, op, bthread, ctx, path, paths, lclient, key,
                   prefix, path_iter, files, handle, out, nlocal, store0, client0>>


\* ---------------------------------------------------------------- batch_delete
\* S3FileSystem::batch_delete, up to the loop
batch_delete(ps, b) ==
    /\ Enter("batch_delete", <<>>, ps, b, NoDispatch(b))
    /\ path_iter' = 0
    /\ IF client = 0
       THEN pc' = "done" /\ status' = "InternalError"
       ELSE pc' = "batch_delete" /\ status' = "none"
    /\ UNCHANGED <<store, key, prefix, token, files, handle, out, err, nlocal, calls>>

OneTooManyBatchEnd(i, n) == Min(n, i + max_delete_batch + 1)

\* batch_delete: where the inner for loop stops, from path_begin = i
BatchEnd(i, n) == Min(n, i + max_delete_batch)

\* batch_delete: the request-level failure formats objects.front().GetKey() after
\* `objects` was moved into the request: front() of the moved-from (empty) vector
\* is undefined, the process returns the error or dies
FrontOfMovedFrom == {"IOError", "crash"}

\* S3FileSystem::batch_delete, one iteration of the do-while
batch_delete_batch(outcome, errs, ub) ==
    /\ pc = "batch_delete"
    /\ LET last    == BatchEnd(path_iter, Len(paths))
           objects == [i \in 1..(last - path_iter) |-> get_key(paths[path_iter + i])]
       IN  IF objects = <<>>
           THEN /\ outcome = "ok" /\ errs = {} /\ ub = "IOError"
                /\ status' = "OK"
                /\ pc' = "done"
                /\ UNCHANGED <<store, calls, path_iter, err>>
           ELSE /\ IF outcome = "errors"
                   THEN errs # {} /\ errs \subseteq SeqSet(objects)
                   ELSE errs = {}
                /\ path_iter' = last
                /\ store' = DeleteObjects(store, objects, outcome, errs)
                /\ calls' = Log(Call("delete", RequestClient, <<>>, objects, <<>>, outcome))
                /\ CASE outcome = "fail" ->
                          /\ status' = ub
                          /\ err' = IF ub = "IOError" THEN IOErr(GarbageKey, "request") ELSE NoErr
                          /\ pc' = "done"
                     [] outcome = "errors" ->
                          /\ ub = "IOError"
                          /\ status' = "IOError"
                          /\ err' = IOErr(FirstError(objects, errs), "empty")
                          /\ pc' = "done"
                     [] outcome = "ok" ->
                          /\ ub = "IOError"
                          /\ UNCHANGED err
                          /\ IF last # Len(paths)
                             THEN pc' = "batch_delete" /\ status' = "none"
                             ELSE pc' = "done" /\ status' = "OK"
    /\ UNCHANGED <<conf, client, connects, op, bthread, ctx, path, paths, lclient, key,
                   prefix, token, files, handle, out, nlocal, pages, store0, client0>>

\* ---------------------------------------------------------------- single-call operations
Finish(st) ==
    /\ pc' = "done"
    /\ status' = st
    /\ UNCHANGED <<prefix, token, path_iter, files>>

HeadCall(cl, k, r, b) == [Call("head", cl, <<>>, <<k>>, <<>>, r) EXCEPT !.ctx = Dispatch(b)]

NotFoundIsError(r) == IF r = "ok" THEN "OK" ELSE "IOError"

\* exists_impl: the Status for the HeadObject outcome
ExistsStatus(r) == IF r = "error" THEN "IOError" ELSE "OK"

ResAlwaysWritten(r) == IF r = "ok" THEN {TRUE} ELSE {FALSE}

\* exists_impl: what is written to *res (nothing on the error path)
ExistsRes(r) ==
    CASE r = "ok"        -> {TRUE}
      [] r = "not_found" -> {FALSE}
      [] OTHER           -> {}

\* S3FileSystem::exists / exists_impl
exists(p, b, fault) ==
    /\ Enter("exists", p, <<>>, b, Dispatch(b))
    /\ UNCHANGED <<store, handle, nlocal>>
    /\ IF client = 0
       THEN Finish("InternalError") /\ UNCHANGED <<key, calls, out, err>>
       ELSE LET k == get_key(p)
                r == HeadObject(store, k, fault)
            IN  /\ key' = k
                /\ calls' = Log(HeadCall(client, k, r, b))
                /\ out' = ExistsRes(r)
                /\ err' = IF ExistsStatus(r) = "IOError" THEN IOErr(k, "request") ELSE NoErr
                /\ Finish(ExistsStatus(r))

\* file_size_impl: the Status for the HeadObject outcome
FileSizeStatus(r) == IF r = "ok" THEN "OK" ELSE "IOError"

\* S3FileSystem::file_size / file_size_impl
file_size(p, b, fault) ==
    /\ Enter("file_size", p, <<>>, b, Dispatch(b))
    /\ UNCHANGED <<store, handle, nlocal>>
    /\ IF client = 0
       THEN Finish("InternalError") /\ UNCHANGED <<key, calls, out, err>>
       ELSE LET k == get_key(p)
                r == HeadObject(store, k, fault)
            IN  /\ key' = k
                /\ calls' = Log(HeadCall(client, k, r, b))
                /\ out' = IF r = "ok" THEN {ContentLength(k)} ELSE {}
                /\ err' = IF FileSizeStatus(r) = "IOError" THEN IOErr(k, "request") ELSE NoErr
                /\ Finish(FileSizeStatus(r))

\* delete_file_impl: the Status for the DeleteObject outcome
DeleteFileStatus(r) == IF r = "error" THEN "IOError" ELSE "OK"

\* S3FileSystem::delete_file / delete_file_impl; the store answers a delete of
\* a missing key with success or with 404 (nf)
delete_file(p, b, fault, nf) ==
    /\ Enter("delete_file", p, <<>>, b, Dispatch(b))
    /\ UNCHANGED <<handle, out, nlocal>>
    /\ IF client = 0
       THEN /\ fault = FALSE /\ nf = FALSE
            /\ Finish("InternalError") /\ UNCHANGED <<key, calls, store, err>>
       ELSE LET k == get_key(p)
                r == IF fault THEN "error"
                     ELSE IF k \notin store /\ nf THEN "not_found" ELSE "ok"
            IN  /\ fault => ~nf
                /\ nf => k \notin store
                /\ key' = k
                /\ store' = IF r = "ok" THEN store \ {k} ELSE store
                /\ calls' = Log([Call("delete_one", client, <<>>, <<k>>, <<>>, r) EXCEPT !.ctx = Dispatch(b)])
                /\ err' = IF DeleteFileStatus(r) = "IOError" THEN IOErr(k, "request") ELSE NoErr
                /\ Finish(DeleteFileStatus(r))

\* S3FileSystem::upload / upload_impl
upload(dest, b, term) ==
    /\ Enter("upload", dest, <<>>, b, Dispatch(b))
    /\ UNCHANGED <<handle, out, nlocal>>
    /\ IF client = 0
       THEN /\ term = "COMPLETED"
            /\ Finish("InternalError") /\ UNCHANGED <<key, calls, store, err>>
       ELSE LET k == get_key(dest)
            IN  /\ key' = k
                /\ store' = IF term = "COMPLETED" THEN store \cup {k} ELSE store
                /\ calls' = Log([Call("upload", client, <<>>, <<k>>, <<>>, term) EXCEPT !.ctx = Dispatch(b)])
                /\ err' = IF term = "COMPLETED" THEN NoErr ELSE IOErr(k, "transfer")
                /\ Finish(IF term = "COMPLETED" THEN "OK" ELSE "IOError")

WaitedAll(terms) == Len(terms)

\* batch_upload_impl: the handles waited on, in submission order, up to and
\* including the first that did not complete
Waited(terms) ==
    LET bad == {i \in 1..Len(terms) : terms[i] # "COMPLETED"}
    IN  IF bad = {} THEN Len(terms)
        ELSE CHOOSE i \in bad : \A j \in bad : i <= j

AnyLengths(n, dests) == TRUE

\* batch_upload_impl: local_paths.size() != dest_paths.size() is refused
LengthsMatch(n, dests) == n = Len(dests)

\* S3FileSystem::batch_upload / batch_upload_impl: n local paths, the
\* destination paths, and the terminal state each transfer reaches
batch_upload(n, dests, b, terms) ==
    /\ Enter("batch_upload", <<>>, dests, b, Dispatch(b))
    /\ nlocal' = n
    /\ UNCHANGED <<handle, key, out>>
    /\ IF client = 0
       THEN /\ terms = <<>>
            /\ Finish("InternalError") /\ UNCHANGED <<calls, store, err>>
       ELSE IF ~LengthsMatch(n, dests)
       THEN /\ terms = <<>>
            /\ Finish("InvalidArgument") /\ UNCHANGED <<calls, store, err>>
       ELSE /\ Len(terms) = Len(dests)
            /\ store' = store \cup {get_key(dests[i]) : i \in {j \in 1..Len(dests) : terms[j] = "COMPLETED"}}
            /\ calls' = SubSeq(
                  [i \in 1..Len(dests) |->
                      [Call("upload", client, <<>>, <<get_key(dests[i])>>, <<>>, "started")
                         EXCEPT !.ctx = Dispatch(b)]]
                  \o [i \in 1..Waited(terms) |->
                      [Call("wait", client, <<>>, <<get_key(dests[i])>>, <<>>, terms[i])
                         EXCEPT !.ctx = Dispatch(b)]],
                  1, Min(LogCap, Len(dests) + Waited(terms)))
            /\ err' = IF \A i \in 1..Len(terms) : terms[i] = "COMPLETED"
                      THEN NoErr ELSE BareErr("transfer")
            /\ Finish(IF \A i \in 1..Len(terms) : terms[i] = "COMPLETED"
                      THEN "OK" ELSE "IOError")

\* S3FileSystem::create_file / create_file_impl
create_file(p, b) ==
    /\ Enter("create_file", p, <<>>, b, Dispatch(b))
    /\ key' = get_key(p)
    /\ handle' = [type |-> "writer", key |-> get_key(p), size |-> 0, client |-> client]
    /\ Finish("OK")
    /\ UNCHANGED <<store, calls, out, err, nlocal>>

ReaderAlways(r, k, h) ==
    [type |-> "reader", key |-> k, size |-> ContentLength(k), client |-> 0]

\* open_file_impl: RETURN_IF_ERROR(file_size(path, &fsize)), then the reader of
\* the key and the probed size
OpenFileReader(r, k, h) ==
    IF FileSizeStatus(r) = "OK"
    THEN [type |-> "reader", key |-> k, size |-> ContentLength(k), client |-> 0]
    ELSE h

\* S3FileSystem::open_file / open_file_impl, with the file_size it calls
open_file(p, b, fault) ==
    /\ Enter("open_file", p, <<>>, b, Dispatch(b))
    /\ UNCHANGED <<store, out, nlocal>>
    /\ IF client = 0
       THEN Finish("InternalError") /\ UNCHANGED <<key, calls, handle, err>>
       ELSE LET k == get_key(p)
                r == HeadObject(store, k, fault)
            IN  /\ key' = k
                /\ calls' = Log(HeadCall(client, k, r, b))
                /\ handle' = OpenFileReader(r, k, handle)
                /\ err' = IF FileSizeStatus(r) = "IOError" THEN IOErr(k, "request") ELSE NoErr
                /\ Finish(FileSizeStatus(r))

\* the caller takes the result; the next operation starts from fresh locals
return ==
    /\ pc = "done"
    /\ status # "crash"
    /\ pc' = "idle"
    /\ op' = "none"
    /\ bthread' = FALSE
    /\ ctx' = "caller"
    /\ path' = <<>>
    /\ paths' = <<>>
    /\ lclient' = 0
    /\ key' = <<>>
    /\ prefix' = <<>>
    /\ token' = <<>>
    /\ path_iter' = 0
    /\ files' = <<>>
    /\ status' = "none"
    /\ handle' = NoHandle
    /\ out' = {}
    /\ err' = NoErr
    /\ nlocal' = 0
    /\ calls' = <<>>
    /\ pages' = 0
    /\ store0' = {}
    /\ client0' = 0
    /\ UNCHANGED <<conf, client, connects, store>>

\* ---------------------------------------------------------------- specification
Connect == \E ok \in BOOLEAN : connect(ok)
List == \E p \in PathPool, b \in BOOLEAN : list(p, b)
ListPage == \E ok \in BOOLEAN : list_page(ok)
DeleteDirectory == \E p \in PathPool, b \in BOOLEAN : delete_directory(p, b)
DeleteDirectoryPage ==
    \E listOk \in BOOLEAN, outcome \in DeleteOutcomes, errs \in SUBSET store :
        delete_directory_page(listOk, outcome, errs)
BatchDelete == \E ps \in BatchSeqs, b \in BOOLEAN : batch_delete(ps, b)
BatchDeleteBatch ==
    \E outcome \in DeleteOutcomes, errs \in SUBSET {get_key(q) : q \in BatchPool},
       ub \in FrontOfMovedFrom :
        batch_delete_batch(outcome, errs, ub)
Exists == \E p \in PathPool, b \in BOOLEAN, fault \in BOOLEAN : exists(p, b, fault)
FileSize == \E p \in PathPool, b \in BOOLEAN, fault \in BOOLEAN : file_size(p, b, fault)
DeleteFile == \E p \in PathPool, b \in BOOLEAN, fault \in BOOLEAN, nf \in BOOLEAN :
                 delete_file(p, b, fault, nf)
Upload == \E dest \in BatchPool, b \in BOOLEAN, term \in TransferStates : upload(dest, b, term)
BatchUpload ==
    \E n \in 0..2, dests \in SeqsUpTo(BatchPool, 2), b \in BOOLEAN,
       terms \in SeqsUpTo(TransferStates, 2) :
        batch_upload(n, dests, b, terms)
CreateFile == \E p \in PathPool, b \in BOOLEAN : create_file(p, b)
OpenFile == \E p \in PathPool, b \in BOOLEAN, fault \in BOOLEAN : open_file(p, b, fault)
Return == return

Next ==
    \/ Connect
    \/ List
    \/ ListPage
    \/ DeleteDirectory
    \/ DeleteDirectoryPage
    \/ BatchDelete
    \/ BatchDeleteBatch
    \/ Exists
    \/ FileSize
    \/ DeleteFile
    \/ Upload
    \/ BatchUpload
    \/ CreateFile
    \/ OpenFile
    \/ Return

Spec == Init /\ [][Next]_vars

\* the paging and batching loops keep running once entered
FairSpec ==
    /\ Spec
    /\ WF_vars(ListPage)
    /\ WF_vars(DeleteDirectoryPage)
    /\ WF_vars(BatchDeleteBatch)


\* ---------------------------------------------------------------- properties
Ceil(a, b) == (a + b - 1) \div b

Max(a, b) == IF a > b THEN a ELSE b

NoDuplicates(s) == \A i, j \in 1..Len(s) : i # j => s[i] # s[j]

RECURSIVE Concat(_)
Concat(ss) == IF ss = <<>> THEN <<>> ELSE Head(ss) \o Concat(Tail(ss))

IsList(c) == c.kind = "list"

IsDelete(c) == c.kind = "delete"

\* the directory's prefix: the resolved key with a trailing '/' ensured
NormalizedPrefix == IF key[Len(key)] = "/" THEN key ELSE key \o Slash

\* the keys under the directory's prefix when the operation was called
Under0 == {k \in store0 : StartsWith(k, NormalizedPrefix)}

Returned(o, st) == pc = "done" /\ op = o /\ status = st

\* C1: list(dir) on a connected filesystem returns one entry per backend key
\* under the normalized prefix, the key with the prefix stripped, with no
\* duplicates and no omissions across pages: the entries accumulated are never
\* repeated, each is a listed key, and on return they are all of them.
C1_ListReturnsEachKeyOnce ==
    (op = "list" /\ client0 # 0) =>
        /\ NoDuplicates(files)
        /\ SeqSet(files) \subseteq {Drop(k, Len(NormalizedPrefix)) : k \in Under0}
        /\ Returned("list", "OK") =>
              SeqSet(files) = {Drop(k, Len(NormalizedPrefix)) : k \in Under0}

\* C2: every call of list and of delete_directory terminates: once in the
\* paging loop, the operation eventually returns.
C2_PagingTerminates == (pc \in {"list", "delete_directory"}) ~> (pc = "done")

\* C3: within one list or delete_directory call every list request after the
\* first carries the continuation token the preceding page returned, so no
\* page is requested twice.
C3_PagesFollowToken ==
    (op \in {"list", "delete_directory"}) =>
        LET L == SelectSeq(calls, IsList)
        IN  \A i \in 2..Len(L) :
               /\ L[i].token = L[i - 1].next
               /\ \A j \in 1..(i - 1) : L[j].token # L[i].token

\* the operations that resolve their path argument to a key
KeyResolved ==
    /\ pc # "idle"
    /\ \/ op = "create_file"
       \/ /\ op \in {"list", "delete_directory", "exists", "file_size", "delete_file",
                      "upload", "open_file"}
          /\ client0 # 0

\* C4 as stated: get_key(p) is the stored prefix concatenated with p[len(root):]
\* when p starts with the root path (the bare prefix for p = root), and the
\* stored prefix concatenated with p otherwise.
C4_KeyIsPrefixThenPath ==
    KeyResolved =>
        key = IF StartsWith(path, root_path)
              THEN s3_prefix \o SubSeq(path, Len(root_path) + 1, Len(path))
              ELSE s3_prefix \o path

\* C4 amended: get_key(p) is the stored prefix, a '/', and then p[len(root):]
\* when p starts with the root path (so p = root yields the prefix followed by
\* '/'), and the stored prefix, a '/', and p otherwise.
C4_KeyIsPrefixSlashPath ==
    KeyResolved =>
        key = IF StartsWith(path, root_path)
              THEN s3_prefix \o <<"/">> \o SubSeq(path, Len(root_path) + 1, Len(path))
              ELSE s3_prefix \o <<"/">> \o path

C4_Witness ==
    /\ Returned("exists", "OK")
    /\ path = root_path
    /\ key = s3_prefix \o <<"/">>

\* C5: when delete_directory(dir) returns OK, its bulk-delete requests together
\* cover every key under the normalized prefix: none of them remains in the
\* store and no key outside the prefix was deleted.
C5_DeleteDirectoryCoversPrefix ==
    Returned("delete_directory", "OK") =>
        /\ {k \in store : StartsWith(k, NormalizedPrefix)} = {}
        /\ store = store0 \ Under0
        /\ UNION {SeqSet(c.keys) : c \in SeqSet(SelectSeq(calls, IsDelete))} = Under0

C5_Witness ==
    /\ Returned("delete_directory", "OK")
    /\ Cardinality(Under0) > page_size
    /\ store0 \ Under0 # {}
    /\ store = store0 \ Under0

\* C6 as stated: a delete_directory call in which no backend call fails issues
\* exactly ceil(total/N) list calls, for total keys under the prefix and page
\* size N.
C6_ListCallsAreCeil ==
    Returned("delete_directory", "OK") =>
        Len(SelectSeq(calls, IsList)) = Ceil(Cardinality(Under0), page_size)

\* C6 amended: a delete_directory call in which no backend call fails issues
\* exactly max(1, ceil(total/N)) list calls: one when there is no key under the
\* prefix, ceil(total/N) otherwise.
C6_ListCallsAreCeilAtLeastOne ==
    Returned("delete_directory", "OK") =>
        Len(SelectSeq(calls, IsList)) = Max(1, Ceil(Cardinality(Under0), page_size))

C6_Witness ==
    /\ Returned("delete_directory", "OK")
    /\ Cardinality(Under0) = 3
    /\ page_size = 2
    /\ Len(SelectSeq(calls, IsList)) = 2

\* C7: a batch_delete call of n paths in which no backend call fails issues
\* exactly ceil(n/B) bulk-delete requests, in submission order, each non-empty
\* and of at most B keys, all but the last of exactly B, and the requests' keys
\* concatenated are get_key of the input paths in order.
C7_BatchDeleteBatches ==
    Returned("batch_delete", "OK") =>
        /\ Len(calls) = Ceil(Len(paths), max_delete_batch)
        /\ \A i \in 1..Len(calls) :
              /\ calls[i].kind = "delete"
              /\ calls[i].keys # <<>>
              /\ Len(calls[i].keys) <= max_delete_batch
              /\ i < Len(calls) => Len(calls[i].keys) = max_delete_batch
        /\ Concat([i \in 1..Len(calls) |-> calls[i].keys])
             = [i \in 1..Len(paths) |-> get_key(paths[i])]

C7_Witness ==
    /\ Returned("batch_delete", "OK")
    /\ Len(paths) = 5
    /\ Len(calls) = 3
    /\ Len(calls[3].keys) = 1

\* C8: if the k-th bulk-delete request of a batch_delete call fails at request
\* level or reports a per-object error, batch_delete returns an I/O error
\* immediately, issues no later request, and the deletions of requests 1..k-1
\* remain in effect.
C8_BatchDeleteStopsAtFirstFailure ==
    op = "batch_delete" =>
        \A k \in 1..Len(calls) :
            calls[k].outcome # "ok" =>
                /\ k = Len(calls)
                /\ pc = "done"
                /\ status = "IOError"
                /\ \A j \in 1..(k - 1) : SeqSet(calls[j].keys) \cap store = {}

BackendOps == {"exists", "file_size", "delete_file", "delete_directory", "list",
               "batch_delete", "upload", "batch_upload", "create_file", "open_file"}

\* C9: while no client is stored, every operation that addresses the backend
\* returns an internal error, issues no backend call and produces no handle.
C9_NoClientNoBackend ==
    (pc = "done" /\ op \in BackendOps /\ client0 = 0) =>
        /\ status = "InternalError"
        /\ calls = <<>>
        /\ handle = NoHandle

\* C10: when the caller is a bthread no backend call of the operation runs on
\* the caller's context (the body runs on the worker pool), and when the caller
\* is a plain thread the body runs inline.
C10_BackendCallsOffCallerFiber ==
    \A i \in 1..Len(calls) : calls[i].ctx = IF bthread THEN "worker" ELSE "caller"

\* the outcome of the one backend request of a single-request operation
Outcome == calls[1].outcome

\* C11: delete_file on a connected filesystem returns OK both when the backend
\* delete succeeds and when the backend answers 'not found' (so a delete
\* repeated on a key that is already gone returns OK again), and an I/O error
\* for any other backend failure; after OK the key is not in the store.
C11_DeleteFileIdempotent ==
    (pc = "done" /\ op = "delete_file" /\ client0 # 0) =>
        /\ Len(calls) = 1
        /\ Outcome \in {"ok", "not_found"} => (status = "OK" /\ key \notin store)
        /\ Outcome = "error" => status = "IOError"
        /\ key \notin store0 => Outcome # "ok" \/ status = "OK"

C11_Witness ==
    /\ Returned("delete_file", "OK")
    /\ client0 # 0
    /\ key \notin store0
    /\ Outcome = "not_found"

\* C12: on a connected filesystem exists(path) returns OK with result true when
\* the HEAD probe succeeds, OK with result false when the probe fails with 404,
\* and an I/O error with the result left unwritten for every other failure.
C12_ExistsResult ==
    (pc = "done" /\ op = "exists" /\ client0 # 0) =>
        /\ Len(calls) = 1
        /\ Outcome = "ok" => (status = "OK" /\ out = {TRUE} /\ key \in store0)
        /\ Outcome = "not_found" => (status = "OK" /\ out = {FALSE} /\ key \notin store0)
        /\ Outcome = "error" => (status = "IOError" /\ out = {})

C12_Witness ==
    /\ Returned("exists", "OK")
    /\ client0 # 0
    /\ Outcome = "not_found"
    /\ out = {FALSE}

\* C13: open_file(path) returns OK with a reader whose size is the content
\* length the size probe reported (0 included) and whose key is get_key(path)
\* exactly when the probe succeeds; when the probe fails (a missing key, a
\* backend failure, no client) open_file returns the probe's error and produces
\* no reader.
C13_OpenFileFollowsProbe ==
    (pc = "done" /\ op = "open_file") =>
        IF client0 = 0
        THEN status = "InternalError" /\ handle = NoHandle /\ calls = <<>>
        ELSE /\ Len(calls) = 1 /\ calls[1].kind = "head" /\ calls[1].keys = <<get_key(path)>>
             /\ status = "OK" <=> Outcome = "ok"
             /\ status = "OK" =>
                   /\ handle.type = "reader"
                   /\ handle.key = get_key(path)
                   /\ handle.size = ContentLength(get_key(path))
             /\ status # "OK" =>
                   /\ status = "IOError"
                   /\ err = IOErr(get_key(path), "request")
                   /\ handle = NoHandle

C13_Witness ==
    /\ Returned("open_file", "OK")
    /\ handle.type = "reader"
    /\ handle.size = 0
    /\ key \in store0

IsStart(c) == c.kind = "upload"

IsWait(c) == c.kind = "wait"

\* batch_upload was called with input sequences of different lengths
Mismatched == pc = "done" /\ op = "batch_upload" /\ nlocal # Len(paths)

\* C14 as stated: batch_upload called with input sequences of different lengths
\* returns an invalid-argument error without starting any transfer.
C14_MismatchIsInvalidArgument ==
    Mismatched => (status = "InvalidArgument" /\ calls = <<>>)

\* C14: batch_upload called with input sequences of different lengths starts no
\* transfer and leaves the store as it was; it returns an invalid-argument error
\* when a client is stored, and the internal error of the client check, which
\* comes first, when none is.
C14_MismatchAfterClientCheck ==
    Mismatched =>
        /\ calls = <<>>
        /\ store = store0
        /\ status = IF client0 # 0 THEN "InvalidArgument" ELSE "InternalError"

C14_Witness ==
    /\ Mismatched
    /\ client0 # 0
    /\ nlocal = 2
    /\ Len(paths) = 1
    /\ status = "InvalidArgument"

\* batch_upload was called with n local and n destination paths
EqualLengths == pc = "done" /\ op = "batch_upload" /\ nlocal = Len(paths)

\* the transfers of the call that were waited on and did not end 'completed'
FailedWaits == {i \in 1..Len(calls) : IsWait(calls[i]) /\ calls[i].outcome # "COMPLETED"}

\* the n transfers are started first, one per destination in order; then the
\* handles are waited on in submission order, none after one that did not
\* complete
StartAllThenWaitInOrder ==
    LET n == Len(paths)
        S == SelectSeq(calls, IsStart)
        W == SelectSeq(calls, IsWait)
    IN  /\ calls = S \o W
        /\ Len(S) = n
        /\ \A i \in 1..n : S[i].keys = <<get_key(paths[i])>>
        /\ Len(W) <= n
        /\ \A i \in 1..Len(W) : W[i].keys = S[i].keys
        /\ \A i \in 1..Len(W) : W[i].outcome # "COMPLETED" => i = Len(W)
        /\ (\A i \in 1..Len(W) : W[i].outcome = "COMPLETED") => Len(W) = n

\* C20 as stated: batch_upload with equal-length inputs starts all n transfers
\* before waiting on any, waits in submission order, returns OK iff every
\* transfer ends 'completed', and otherwise returns an I/O error for the
\* lowest-index transfer that did not, without waiting on later handles.
C20_StartAllThenWait ==
    EqualLengths =>
        /\ StartAllThenWaitInOrder
        /\ status = "OK" <=> FailedWaits = {}
        /\ status # "OK" => status = "IOError"

\* C20: on a connected filesystem batch_upload with equal-length inputs starts
\* all n transfers before waiting on any, waits in submission order, returns OK
\* iff every transfer waited on ended 'completed' (then all n were waited on),
\* and otherwise returns an I/O error at the lowest-index transfer that did not,
\* without waiting on later handles; with no client stored it starts nothing
\* and returns an internal error.
C20_ConnectedStartAllThenWait ==
    EqualLengths =>
        IF client0 = 0
        THEN status = "InternalError" /\ calls = <<>>
        ELSE /\ StartAllThenWaitInOrder
             /\ status = "OK" <=> FailedWaits = {}
             /\ status # "OK" => (status = "IOError" /\ err.message = "transfer")

C20_Witness ==
    /\ EqualLengths
    /\ client0 # 0
    /\ Len(paths) = 2
    /\ status = "IOError"
    /\ Len(calls) = 3
    /\ calls[3].kind = "wait"
    /\ calls[3].outcome # "COMPLETED"

\* the last backend request of the operation
LastCall == calls[Len(calls)]

\* the key an error of the operation may cite: the prefix of a paging operation,
\* or a key of the request that failed
OffendingKeys == {prefix} \cup SeqSet(LastCall.keys)

\* C15: every I/O error returned by an operation carries the endpoint, the
\* bucket, the key (or first offending key) and the backend's own message for
\* the failure that caused it.
C15_IOErrorsCarryContext ==
    (pc = "done" /\ status = "IOError") =>
        /\ err.endpoint
        /\ err.bucket
        /\ err.key \in OffendingKeys
        /\ err.message \in {"request", "object", "transfer"}

\* the requests of the call that did not succeed
FailedCalls == {i \in 1..Len(calls) : calls[i].outcome # "ok"}

\* the first key of the request, in request order, that is still in the store
FirstLeft(keys) ==
    keys[CHOOSE i \in 1..Len(keys) :
            /\ keys[i] \in store
            /\ \A j \in 1..(i - 1) : keys[j] \notin store]

\* C16: in delete_directory the first failure ends the call: a failed list
\* page, a failed bulk delete or a bulk delete with per-object errors makes the
\* call return an I/O error (citing the first failing key in the per-object
\* case), that request is the last one issued, and what earlier pages deleted
\* stays deleted.
C16_DeleteDirectoryStopsAtFirstFailure ==
    (op = "delete_directory" /\ pc # "idle" /\ client0 # 0) =>
        /\ FailedCalls # {} <=> (pc = "done" /\ status = "IOError")
        /\ \A i \in FailedCalls : i = Len(calls)
        /\ \A i \in 1..Len(calls) :
              (IsDelete(calls[i]) /\ calls[i].outcome = "ok") =>
                  SeqSet(calls[i].keys) \cap store = {}
        /\ store \subseteq store0
        /\ FailedCalls # {} =>
              IF LastCall.outcome = "errors"
              THEN err = IOErr(FirstLeft(LastCall.keys), "object")
              ELSE err = IOErr(prefix, "request")

C16_Witness ==
    /\ Returned("delete_directory", "IOError")
    /\ client0 # 0
    /\ Len(calls) = 4
    /\ calls[2].outcome = "ok"
    /\ calls[4].outcome = "errors"
    /\ err.key = calls[4].keys[1]

\* C17: an operation in flight sends every backend request through the client
\* handle it took at its start, also after connect() replaced the stored one;
\* the stored handle is always absent or the product of one whole connect().
C17_InFlightKeepsClient ==
    /\ client \in 0..connects
    /\ (pc # "idle" /\ client0 # 0) =>
          \A i \in 1..Len(calls) : calls[i].client = client0

C17_Witness ==
    /\ pc = "done"
    /\ op = "delete_directory"
    /\ client0 # 0
    /\ client # 0
    /\ client # client0
    /\ Len(calls) = 4
    /\ calls[4].client = client0

\* C18: the client state only moves Uninitialized->Ready or Ready->Ready: once
\* a client is stored, a client is stored in every later state, also after a
\* connect() whose client construction fails.
C18_ClientStaysReady == [][client # 0 => client' # 0]_vars

\* C19: after construction the stored prefix has neither a leading nor a
\* trailing '/', whatever the profile's prefix was.
C19_PrefixHasNoOuterSlash ==
    s3_prefix # <<>> => (s3_prefix[1] # "/" /\ s3_prefix[Len(s3_prefix)] # "/")

\* the path argument is the absolute form root + "/" + r of the relative path r
AbsoluteFormOf(r) == path = root_path \o Slash \o r

\* C21: the absolute and the relative form of the same path resolve to the same
\* object key: for every relative path r, the key resolved for root + "/" + r
\* is get_key(r), root being the root path endpoint/bucket/prefix.
C21_AbsoluteAndRelativeSameKey ==
    KeyResolved =>
        \A r \in RelPaths : AbsoluteFormOf(r) => key = get_key(r)

====
